---------------------------- MODULE Spec2Model ----------------------------
(***************************************************************************)
(* Model of src/pipeline.py: the Kobo Toolbox -> PostgreSQL ETL script.    *)
(*                                                                         *)
(* The script is straight-line code.  Every statement that changes state   *)
(* is one action, guarded by the position pc of the script; an exception   *)
(* raised by a statement ends the process (pc = "aborted").  Text labels   *)
(* are sequences of one-character strings, so that the string methods of   *)
(* lines 59-70 are computed character by character.                        *)
(***************************************************************************)
EXTENDS Integers, Sequences, FiniteSets, TLC

VARIABLES
    pc,        \* position of the script: the next statement to run
    remote,    \* what the Kobo endpoint serves: [status, header, rows]
    response,  \* requests.get's result (line 38): [status, header, rows]
    df,        \* the DataFrame: [columns, rows]; a row is [src, vals]
    canon,     \* df.columns as printed at line 73 (after lines 59-70)
    stmts,     \* the database calls issued by this run, in order
    txn,       \* the table as the open connection's transaction sees it
    db,        \* the committed database: [schema, table]
    db0,       \* the committed database when this run started
    i,         \* number of rows the insert loop (line 174) has inserted
    run,       \* number of this run of the script
    err        \* the exception that ended the run, "" when none

vars == <<pc, remote, response, df, canon, stmts, txn, db, db0, i, run, err>>

---------------------------------------------------------------------------
(* Bounds of the explored inputs.                                          *)

MaxRuns == 2        \* runs of the script in succession (Spec)
MaxRowsL == 2       \* data rows of an export (Spec)
MaxColsR == 2       \* header fields (SpecRows)
MaxRowsR == 2       \* data rows (SpecRows)
MaxColsC == 2       \* header fields (SpecCells)
MaxRowsC == 1       \* data rows (SpecCells)
MaxLabelLen == 3    \* characters of a raw label (SpecCanon)

---------------------------------------------------------------------------
(* Characters and labels.                                                  *)

Tab == "\t"
Quote == "\""

\* The characters str.strip() removes at both ends.
Whitespace == {" ", Tab, "\n", "\r"}

UpperCase == <<"A","B","C","D","E","F","G","H","I","J","K","L","M",
               "N","O","P","Q","R","S","T","U","V","W","X","Y","Z">>
LowerCase == <<"a","b","c","d","e","f","g","h","i","j","k","l","m",
               "n","o","p","q","r","s","t","u","v","w","x","y","z">>

\* Raw header labels of the explored exports.
LStart == <<"S","t","a","r","t">>
LEnd == <<"E","n","d">>
LGender == <<"G","e","n","d","e","r">>
LRegion == <<"R","e","g","i","o","n">>
LNameOfOrganisation == <<"N","a","m","e"," ","o","f"," ","O","r","g","a","n",
                         "i","s","a","t","i","o","n","?">>
LCurrentPosition == <<"C","u","r","r","e","n","t"," ","P","o","s","i","t",
                      "i","o","n">>
LFoo == <<"F","o","o">>

\* Destination column names.
start_time == <<"s","t","a","r","t","_","t","i","m","e">>
end_time == <<"e","n","d","_","t","i","m","e">>
nationality == <<"n","a","t","i","o","n","a","l","i","t","y">>
region == <<"r","e","g","i","o","n">>
school_name == <<"s","c","h","o","o","l","_","n","a","m","e">>
level_of_study == <<"l","e","v","e","l","_","o","f","_","s","t","u","d","y">>
gender == <<"g","e","n","d","e","r">>
age == <<"a","g","e">>
gps_coordinates == <<"g","p","s","_","c","o","o","r","d","i","n","a","t","e","s">>
name_of_organization == <<"n","a","m","e","_","o","f","_","o","r","g","a","n",
                          "i","z","a","t","i","o","n">>
current_position == <<"c","u","r","r","e","n","t","_","p","o","s","i","t","i",
                      "o","n">>
years_of_experience == <<"y","e","a","r","s","_","o","f","_","e","x","p","e",
                         "r","i","e","n","c","e">>
energy_domain == <<"e","n","e","r","g","y","_","d","o","m","a","i","n">>
consent == <<"c","o","n","s","e","n","t">>

\* COLUMN_MAPPING (lines 78-93): pairs <<canonical source label, destination>>.
COLUMN_MAPPING == {
  <<<<"s","t","a","r","t">>, start_time>>,
  <<<<"e","n","d">>, end_time>>,
  <<<<"n","a","t","i","o","n","a","l","i","t","y">>, nationality>>,
  <<<<"r","e","g","i","o","n">>, region>>,
  <<<<"s","c","h","o","o","l","_","n","a","m","e">>, school_name>>,
  <<<<"l","e","v","e","l","_","o","f","_","s","t","u","d","y">>, level_of_study>>,
  <<<<"g","e","n","d","e","r">>, gender>>,
  <<<<"a","g","e">>, age>>,
  <<<<"g","p","s","_","c","o","o","r","d","i","n","a","t","e","s">>,
    gps_coordinates>>,
  <<<<"n","a","m","e","_","o","f","_","o","r","g","a","n","i","s","a","t",
      "i","o","n">>, name_of_organization>>,
  <<<<"y","o","u","r","_","c","u","r","r","e","n","t","_","p","o","s","i",
      "t","i","o","n","_","i","n","_","t","h","e","_","o","r","g","a","n","i",
      "z","a","t","i","o","n">>, current_position>>,
  <<<<"y","e","a","r","s","_","o","f","_","w","o","r","k","_","e","x","p",
      "e","r","i","e","n","c","e">>, years_of_experience>>,
  <<<<"w","h","i","c","h","_","s","p","e","c","i","f","i","c","_","e","n",
      "e","r","g","y","_","d","o","m","a","i","n","_","d","o","e","s","_","y",
      "o","u","r","_","o","r","g","a","n","i","z","a","t","i","o","n","_","c",
      "o","n","c","e","n","t","r","a","t","e","_","o","n">>, energy_domain>>,
  <<<<"i","_","g","i","v","e","_","c","o","n","s","e","n","t","_","f","o",
      "r","_","m","y","_","i","n","f","o","r","m","a","t","i","o","n","_","t",
      "o","_","b","e","_","c","o","l","l","e","c","t","e","d","_","a","n","d",
      "_","u","s","e","d","_","f","o","r","_","r","e","s","e","a","r","c","h",
      "_","p","u","r","p","o","s","e","s">>, consent>> }

MappingKeys == {e[1] : e \in COLUMN_MAPPING}

\* The column list of the INSERT statement (lines 163-166), in order.
InsertColumns == <<start_time, end_time, nationality, region, school_name,
                   level_of_study, gender, age, gps_coordinates,
                   name_of_organization, current_position,
                   years_of_experience, energy_domain, consent>>

\* The TIMESTAMP columns of the CREATE TABLE statement (lines 135-136).
TimestampColumns == {start_time, end_time}

---------------------------------------------------------------------------
(* String methods on labels (lines 59-70).                                 *)

RECURSIVE LStrip(_)
LStrip(s) ==
    IF s # <<>> /\ Head(s) \in Whitespace THEN LStrip(Tail(s)) ELSE s

RECURSIVE RStrip(_)
RStrip(s) ==
    IF s # <<>> /\ s[Len(s)] \in Whitespace
    THEN RStrip(SubSeq(s, 1, Len(s) - 1)) ELSE s

\* str.strip()
Strip(s) == RStrip(LStrip(s))

LowerChar(c) ==
    IF \E k \in 1..Len(UpperCase) : UpperCase[k] = c
    THEN LowerCase[CHOOSE k \in 1..Len(UpperCase) : UpperCase[k] = c]
    ELSE c

\* str.lower()
Lower(s) == [k \in 1..Len(s) |-> LowerChar(s[k])]

\* str.replace(c, r) for a one-character pattern c, taken literally.
RECURSIVE Replace(_, _, _)
Replace(s, c, r) ==
    IF s = <<>> THEN <<>>
    ELSE (IF Head(s) = c THEN r ELSE <<Head(s)>>) \o Replace(Tail(s), c, r)

\* Mutant: the question mark is replaced by a space.
BlankQuestionMark(s) == Replace(s, "?", <<" ">>)

\* Line 67: .str.replace("?", "", regex=False)
DeleteQuestionMark(s) == Replace(s, "?", <<>>)

\* The chain of lines 61-69, applied to one label in that order.
canonicalize(x) ==
    LET s1 == Strip(x)
        s2 == Lower(s1)
        s3 == Replace(s2, Quote, <<>>)
        s4 == Replace(s3, " ", <<"_">>)
        s5 == Replace(s4, "&", <<"a","n","d">>)
        s6 == Replace(s5, "-", <<"_">>)
        s7 == DeleteQuestionMark(s6)
        s8 == Replace(s7, ".", <<>>)
        s9 == Replace(s8, "!", <<>>)
    IN  s9

\* Mutant: no label is renamed.
RenameNothing(c) == c

\* df.rename(columns=COLUMN_MAPPING) on one label (line 95).
Rename(c) ==
    IF c \in MappingKeys
    THEN (CHOOSE e \in COLUMN_MAPPING : e[1] = c)[2]
    ELSE c

---------------------------------------------------------------------------
(* pandas values.  A cell of the DataFrame is [t, v]: t is the Python type *)
(* of the value and v its text.                                            *)

NaN == [t |-> "nan", v |-> "NaN"]       \* float('nan'): a missing cell
NaT == [t |-> "nat", v |-> "NaT"]       \* pandas.NaT: a missing timestamp
None == [t |-> "none", v |-> ""]        \* Python None
Series == [t |-> "series", v |-> ""]    \* row.get on a duplicated label

\* Cell texts of the explored exports.
TsCell == "2024-01-01T10:00"
NumericCells == {"25"}
CellTexts == {"", "x", "25", TsCell}

\* repr() of the float64 a numeric text is parsed to.
FloatRepr(text) == CASE text = "25" -> "25.0" [] OTHER -> text

\* Timestamp.isoformat() of the value a text parses to.
IsoFormat(text) ==
    CASE text = TsCell -> "2024-01-01T10:00:00"
      [] text \in {"25", "25.0"} -> "1970-01-01T00:00:00.000000025"
      [] OTHER -> text

Range(s) == {s[k] : k \in 1..Len(s)}

---------------------------------------------------------------------------
(* pd.read_csv(io.StringIO(response.text), sep=";", on_bad_lines="skip")   *)
(* (lines 48-52), on the header fields and the data lines' fields.         *)

\* skip_blank_lines (the default): an empty line holds no record.
IsBlank(line) == line = <<"">>

\* The data lines that are not blank, by their position in the text.
NonBlank(rows) ==
    SelectSeq([k \in 1..Len(rows) |-> k], LAMBDA k : ~IsBlank(rows[k]))

\* Mutant: every line, the first too, is measured against the header.
HeaderWidth(header, rows) == Len(header)

\* The C tokenizer's expected field count: the first data line is never a
\* bad line, and every later line is measured against the line before it;
\* a shorter line is padded to that count.
TableWidth(header, rows) ==
    LET idx == NonBlank(rows)
    IN  IF idx # <<>> /\ Len(rows[idx[1]]) > Len(header)
        THEN Len(rows[idx[1]]) ELSE Len(header)

\* Fields in front of the header's columns become the index, not columns.
LeadingCols(header, rows) == TableWidth(header, rows) - Len(header)

\* Mutant: a line with fewer fields than expected is dropped as well.
KeptLinesExact(header, rows) ==
    SelectSeq(NonBlank(rows),
              LAMBDA k : Len(rows[k]) = TableWidth(header, rows))

\* on_bad_lines="skip": a line with more fields than expected is dropped.
KeptLines(header, rows) ==
    SelectSeq(NonBlank(rows),
              LAMBDA k : Len(rows[k]) <= TableWidth(header, rows))

\* The text of column j on data line k; a field the line lacks is empty.
Field(header, rows, k, j) ==
    LET p == LeadingCols(header, rows) + j
    IN  IF p <= Len(rows[k]) THEN rows[k][p] ELSE ""

\* dtype inference of column j: "object", "int64" or "float64".
ColumnDtype(header, rows, j) ==
    LET texts == {Field(header, rows, k, j) : k \in Range(KeptLines(header, rows))}
    IN  IF texts = {} THEN "object"
        ELSE IF texts \subseteq NumericCells THEN "int64"
        ELSE IF texts \subseteq (NumericCells \cup {""}) THEN "float64"
        ELSE "object"

\* The value read_csv stores for a field of a column of the given dtype.
CellValue(text, dtype) ==
    IF text = "" THEN NaN
    ELSE IF dtype = "int64" THEN [t |-> "int", v |-> text]
    ELSE IF dtype = "float64" THEN [t |-> "float", v |-> FloatRepr(text)]
    ELSE [t |-> "str", v |-> text]

DigitChar == <<"1","2","3","4","5","6","7","8","9">>

\* Duplicate header names are made unique: X, X.1, X.2, ...
MangleDupes(header) ==
    [j \in 1..Len(header) |->
        LET c == Cardinality({p \in 1..(j - 1) : header[p] = header[j]})
        IN  IF c = 0 THEN header[j] ELSE header[j] \o <<".", DigitChar[c]>>]

read_csv(header, rows) ==
    [columns |-> MangleDupes(header),
     rows |-> LET kept == KeptLines(header, rows)
              IN  [r \in 1..Len(kept) |->
                     [src |-> kept[r],
                      vals |-> [j \in 1..Len(header) |->
                                  CellValue(Field(header, rows, kept[r], j),
                                            ColumnDtype(header, rows, j))]]]]

---------------------------------------------------------------------------
(* pd.to_datetime(df.get(name), errors="coerce") and the assignment        *)
(* df[name] = ... (lines 98-99).                                           *)

Positions(columns, name) == {j \in 1..Len(columns) : columns[j] = name}

\* errors="coerce": a value that does not parse becomes NaT.  An integer or
\* float is taken as nanoseconds since the epoch.
to_datetime(val) ==
    IF val.t = "str" /\ val.v = TsCell THEN [t |-> "ts", v |-> IsoFormat(val.v)]
    ELSE IF val.t \in {"int", "float"} THEN [t |-> "ts", v |-> IsoFormat(val.v)]
    ELSE NaT

\* df.get(name) is None for an absent label (and to_datetime(None) is
\* None), the column for a label that occurs once, and a DataFrame for a
\* label that occurs more than once: to_datetime cannot assemble a date
\* from its columns and raises ValueError.
ToDatetimeRaises(d, name) == Cardinality(Positions(d.columns, name)) > 1

\* The DataFrame after  df[name] = pd.to_datetime(df.get(name), ...).
SetTimestamp(d, name) ==
    LET at == Positions(d.columns, name)
    IN  IF at = {}
        THEN [columns |-> Append(d.columns, name),
              rows |-> [r \in 1..Len(d.rows) |->
                          [d.rows[r] EXCEPT !.vals = Append(@, None)]]]
        ELSE LET j == CHOOSE p \in at : TRUE
             IN  [d EXCEPT !.rows =
                    [r \in 1..Len(d.rows) |->
                       [d.rows[r] EXCEPT !.vals[j] = to_datetime(@)]]]

---------------------------------------------------------------------------
(* The INSERT of one row (lines 174-193): row.get, psycopg2's adaptation   *)
(* of the Python value and PostgreSQL's assignment to the column.          *)

\* Mutant: an absent label reads as the empty string.
RowGetEmptyDefault(columns, vals, name) ==
    LET at == Positions(columns, name)
    IN  IF at = {} THEN [t |-> "str", v |-> ""]
        ELSE IF Cardinality(at) > 1 THEN Series
        ELSE vals[CHOOSE p \in at : TRUE]

\* row.get(name): None when the label is absent, a Series when duplicated.
RowGet(columns, vals, name) ==
    LET at == Positions(columns, name)
    IN  IF at = {} THEN None
        ELSE IF Cardinality(at) > 1 THEN Series
        ELSE vals[CHOOSE p \in at : TRUE]

SqlNull == [k |-> "null", v |-> ""]

\* The SQL value stored for a parameter, or [k |-> "error"]:
\*   None -> NULL;  str -> the text;  int, float -> the number's text;
\*   nan -> 'NaN'::float, stored in a TEXT column as the text NaN;
\*   Timestamp -> 'isoformat'::timestamp;
\*   NaT (a datetime subclass) -> 'NaT'::timestamp, which PostgreSQL rejects;
\*   Series -> psycopg2 cannot adapt it.
SqlValue(val) ==
    CASE val.t = "none" -> SqlNull
      [] val.t \in {"str", "int", "float", "nan"} -> [k |-> "text", v |-> val.v]
      [] val.t = "ts" -> [k |-> "timestamp", v |-> val.v]
      [] val.t = "nat" -> [k |-> "error", v |-> "InvalidDatetimeFormat"]
      [] OTHER -> [k |-> "error", v |-> "ProgrammingError"]

\* The parameter tuple of lines 177-192 for one row, as SQL values.
InsertParams(d, r) ==
    [c \in 1..Len(InsertColumns) |->
        SqlValue(RowGet(d.columns, d.rows[r].vals, InsertColumns[c]))]

ParamError(params) ==
    IF \E c \in 1..Len(params) : params[c].k = "error"
    THEN params[CHOOSE c \in 1..Len(params) : params[c].k = "error"].v
    ELSE ""

\* id SERIAL PRIMARY KEY of a fresh table: 1, 2, ...
NextId(table) == Len(table) + 1

\* The table after the INSERT; run tags the row with the run that wrote it.
InsertInto(table, params, runNo) ==
    Append(table, [id |-> NextId(table), run |-> runNo, vals |-> params])

---------------------------------------------------------------------------
(* The explored exports and databases.                                     *)

\* The body of a refused request: one field, no data line.
ErrorBody == <<<<"d","e","t","a","i","l">>>>

Export(status, header, rows) ==
    [status |-> status, header |-> header, rows |-> rows]

\* Answers the script refuses at line 43: unauthorized, and a 2xx that is
\* not 200.
ServesRefusal(e) == \E st \in {401, 204} : e = Export(st, ErrorBody, <<>>)

\* Spec: the header of a well-formed export with both timestamps; a start
\* field is a date-time text or not, a gender field a word or a number.
LoadLines == {<<s, TsCell, g>> : s \in {TsCell, "x"}, g \in {"x", "25"}}
ServesLoad(e) ==
    \/ ServesRefusal(e)
    \/ \E n \in 0..MaxRowsL : \E rows \in [1..n -> LoadLines] :
          e = Export(200, <<LStart, LEnd, LGender>>, rows)

\* SpecRows: blank lines and data lines of every field count from 1 to one
\* more than the header's; the first field tells the lines apart.
RowsLabels == <<LGender, LRegion, LFoo>>
RowsCols == IF MaxColsR < Len(RowsLabels) THEN MaxColsR ELSE Len(RowsLabels)
Lines(n) ==
    {<<"">>} \cup {[j \in 1..a |-> IF j = 1 THEN c ELSE "a"] :
                     a \in 1..(n + 1), c \in {"a", "b"}}
ServesRows(e) ==
    \/ ServesRefusal(e)
    \/ \E n \in 1..RowsCols : \E m \in 0..MaxRowsR : \E rows \in [1..m -> Lines(n)] :
          e = Export(200, SubSeq(RowsLabels, 1, n), rows)

\* SpecCells: headers that list some of CellsLabels, in this order, and
\* data lines with one field per header field.
CellsLabels == <<LStart, LNameOfOrganisation, LCurrentPosition, start_time, LFoo>>
CellsCols == IF MaxColsC < Len(CellsLabels) THEN MaxColsC ELSE Len(CellsLabels)
Increasing(n, m) ==
    {s \in [1..n -> 1..m] : \A a \in 1..n : \A b \in 1..n : a < b => s[a] < s[b]}
ServesCells(e) ==
    \/ ServesRefusal(e)
    \/ \E n \in 1..CellsCols : \E s \in Increasing(n, Len(CellsLabels)) :
       \E m \in 0..MaxRowsC : \E rows \in [1..m -> [1..n -> CellTexts]] :
          e = Export(200, [j \in 1..n |-> CellsLabels[s[j]]], rows)

\* SpecCanon: one column, its raw label any string over CanonChars.
CanonChars == {Tab, " ", Quote, "?", ".", "A", "&", "-"}
ServesCanon(e) ==
    \/ ServesRefusal(e)
    \/ \E n \in 1..MaxLabelLen : \E label \in [1..n -> CanonChars] :
       \E rows \in {<<>>, <<<<"x">>>>} :
          e = Export(200, <<label>>, rows)

\* A row written before the first run; run 0 tags it.
LegacyRow ==
    [id |-> 1, run |-> 0,
     vals |-> [c \in 1..Len(InsertColumns) |-> [k |-> "text", v |-> "legacy"]]]

NoTable == [exists |-> FALSE, rows |-> <<>>]

InitialDbs ==
    {[schema |-> FALSE, table |-> NoTable],
     [schema |-> TRUE, table |-> NoTable],
     [schema |-> TRUE, table |-> [exists |-> TRUE, rows |-> <<>>]],
     [schema |-> TRUE, table |-> [exists |-> TRUE, rows |-> <<LegacyRow>>]]}

LegacyDb == [schema |-> TRUE, table |-> [exists |-> TRUE, rows |-> <<LegacyRow>>]]

EmptyFrame == [columns |-> <<>>, rows |-> <<>>]

---------------------------------------------------------------------------
(* The script.                                                             *)

\* The process as it starts: nothing fetched, no connection.
Start(dbs) ==
    /\ db \in dbs
    /\ db0 = db
    /\ txn = db
    /\ pc = "fetch"
    /\ response = [status |-> 0, header |-> <<>>, rows |-> <<>>]
    /\ df = EmptyFrame
    /\ canon = <<>>
    /\ stmts = <<>>
    /\ i = 0
    /\ run = 1
    /\ err = ""

Init == ServesLoad(remote) /\ Start(InitialDbs)
InitRows == ServesRows(remote) /\ Start({LegacyDb})
InitCells == ServesCells(remote) /\ Start({LegacyDb})
InitCanon == ServesCanon(remote) /\ Start({LegacyDb})

\* An uncaught exception: the process ends; the server rolls back what the
\* dropped connection had not committed.
Raise(e) ==
    /\ pc' = "aborted"
    /\ err' = e
    /\ txn' = db

\* Mutant: the connection is in autocommit mode.
AutoCommit(committed, session) == session

\* psycopg2 opens every connection with autocommit off (lines 106-112):
\* a statement changes the transaction's view only.
AfterExecute(committed, session) == committed

\* Mutant: only server errors are refused.
StatusBelow500(status) == status < 500

\* Line 43: the test of the status code.
StatusOk(status) == status = 200

\* Lines 38-46: requests.get and the status check.
Fetch ==
    /\ pc = "fetch"
    /\ response' = remote
    /\ IF StatusOk(remote.status)
       THEN pc' = "read_csv" /\ UNCHANGED <<err, txn>>
       ELSE Raise("ExtractionError")
    /\ UNCHANGED <<remote, df, canon, stmts, db, db0, i, run>>

\* Lines 48-52.
ReadCsv ==
    /\ pc = "read_csv"
    /\ df' = read_csv(response.header, response.rows)
    /\ pc' = "clean"
    /\ UNCHANGED <<remote, response, canon, stmts, txn, db, db0, i, run, err>>

\* Lines 59-73.
Canonicalize ==
    /\ pc = "clean"
    /\ df' = [df EXCEPT !.columns = [j \in 1..Len(@) |-> canonicalize(@[j])]]
    /\ canon' = df'.columns
    /\ pc' = "rename"
    /\ UNCHANGED <<remote, response, stmts, txn, db, db0, i, run, err>>

\* Line 95.
RenameColumns ==
    /\ pc = "rename"
    /\ df' = [df EXCEPT !.columns = [j \in 1..Len(@) |-> Rename(@[j])]]
    /\ pc' = "start_time"
    /\ UNCHANGED <<remote, response, canon, stmts, txn, db, db0, i, run, err>>

\* Line 98.
CoerceStart ==
    /\ pc = "start_time"
    /\ IF ToDatetimeRaises(df, start_time)
       THEN Raise("ValueError") /\ UNCHANGED df
       ELSE /\ df' = SetTimestamp(df, start_time)
            /\ pc' = "end_time"
            /\ UNCHANGED <<err, txn>>
    /\ UNCHANGED <<remote, response, canon, stmts, db, db0, i, run>>

\* Line 99.
CoerceEnd ==
    /\ pc = "end_time"
    /\ IF ToDatetimeRaises(df, end_time)
       THEN Raise("ValueError") /\ UNCHANGED df
       ELSE /\ df' = SetTimestamp(df, end_time)
            /\ pc' = "connect"
            /\ UNCHANGED <<err, txn>>
    /\ UNCHANGED <<remote, response, canon, stmts, db, db0, i, run>>

\* Lines 106-114: the server may refuse the connection.
Connect ==
    /\ pc = "connect"
    /\ stmts' = Append(stmts, "connect")
    /\ \E ok \in BOOLEAN :
         IF ok THEN pc' = "schema" /\ txn' = db /\ UNCHANGED err
         ELSE Raise("OperationalError")
    /\ UNCHANGED <<remote, response, df, canon, db, db0, i, run>>

\* cur.execute of a statement that leaves the session's view as `view`;
\* the server may fail any statement.
Execute(name, view, next) ==
    /\ stmts' = Append(stmts, name)
    /\ \E ok \in BOOLEAN :
         IF ok
         THEN /\ txn' = view
              /\ db' = AfterExecute(db, view)
              /\ pc' = next
              /\ UNCHANGED err
         ELSE /\ db' = db
              /\ Raise("OperationalError")

\* Lines 121-124: CREATE SCHEMA IF NOT EXISTS.
CreateSchema ==
    /\ pc = "schema"
    /\ Execute("create_schema", [txn EXCEPT !.schema = TRUE], "drop")
    /\ UNCHANGED <<remote, response, df, canon, db0, i, run>>

\* Lines 126-129: DROP TABLE IF EXISTS.
DropTable ==
    /\ pc = "drop"
    /\ Execute("drop_table", [txn EXCEPT !.table = NoTable], "create")
    /\ UNCHANGED <<remote, response, df, canon, db0, i, run>>

\* The insert loop's position after n rows (line 174).
LoopPc(n) == IF n < Len(df.rows) THEN "insert" ELSE "commit"

\* Lines 131-154: CREATE TABLE; it fails on a table that exists.
CreateTable ==
    /\ pc = "create"
    /\ IF txn.table.exists
       THEN /\ stmts' = Append(stmts, "create_table")
            /\ db' = db
            /\ Raise("DuplicateTable")
       ELSE Execute("create_table",
                    [txn EXCEPT !.table = [exists |-> TRUE, rows |-> <<>>]],
                    LoopPc(0))
    /\ UNCHANGED <<remote, response, df, canon, db0, i, run>>

\* Lines 174-193: one pass of the loop, the INSERT of row i + 1.
InsertRow ==
    /\ pc = "insert"
    /\ i < Len(df.rows)
    /\ LET params == InsertParams(df, i + 1)
       IN  IF ParamError(params) # ""
           THEN /\ stmts' = Append(stmts, "insert")
                /\ db' = db
                /\ Raise(ParamError(params))
                /\ UNCHANGED i
           ELSE /\ Execute("insert",
                           [txn EXCEPT !.table.rows = InsertInto(@, params, run)],
                           LoopPc(i + 1))
                /\ i' = IF pc' = "aborted" THEN i ELSE i + 1
    /\ UNCHANGED <<remote, response, df, canon, db0, run>>

\* Mutant: the commit has no effect (the connection is closed uncommitted).
CommitForgotten(committed, session) == committed

\* conn.commit(): the transaction's view becomes the committed database.
Committed(committed, session) == session

\* Line 195.
Commit ==
    /\ pc = "commit"
    /\ stmts' = Append(stmts, "commit")
    /\ \E ok \in BOOLEAN :
         IF ok THEN pc' = "close" /\ db' = Committed(db, txn) /\ UNCHANGED <<txn, err>>
         ELSE db' = db /\ Raise("OperationalError")
    /\ UNCHANGED <<remote, response, df, canon, db0, i, run>>

\* Lines 196-199.
Close ==
    /\ pc = "close"
    /\ pc' = "done"
    /\ UNCHANGED <<remote, response, df, canon, stmts, txn, db, db0, i, run, err>>

\* The script is started again, on whatever the endpoint serves by then.
Rerun ==
    /\ pc \in {"done", "aborted"}
    /\ run < MaxRuns
    /\ run' = run + 1
    /\ ServesLoad(remote')
    /\ db0' = db
    /\ txn' = db
    /\ pc' = "fetch"
    /\ response' = [status |-> 0, header |-> <<>>, rows |-> <<>>]
    /\ df' = EmptyFrame
    /\ canon' = <<>>
    /\ stmts' = <<>>
    /\ i' = 0
    /\ err' = ""
    /\ UNCHANGED db

\* One run of the script.
NextOnce ==
    \/ Fetch
    \/ ReadCsv
    \/ Canonicalize
    \/ RenameColumns
    \/ CoerceStart
    \/ CoerceEnd
    \/ Connect
    \/ CreateSchema
    \/ DropTable
    \/ CreateTable
    \/ InsertRow
    \/ Commit
    \/ Close

Next == NextOnce \/ Rerun

Spec == Init /\ [][Next]_vars
SpecRows == InitRows /\ [][NextOnce]_vars
SpecCells == InitCells /\ [][NextOnce]_vars
SpecCanon == InitCanon /\ [][NextOnce]_vars

---------------------------------------------------------------------------
(* What the claims speak of.                                               *)

\* The rows this run has inserted so far and not lost to a rollback.
Inserted ==
    IF pc \in {"insert", "commit", "close", "done"} THEN txn.table.rows ELSE <<>>

Count(seq, x) == Cardinality({k \in 1..Len(seq) : seq[k] = x})

\* The header fields whose renamed canonical label is the destination name
\* InsertColumns[c].
Sources(c) ==
    {j \in 1..Len(canon) :
        \/ <<canon[j], InsertColumns[c]>> \in COLUMN_MAPPING
        \/ canon[j] \notin MappingKeys /\ canon[j] = InsertColumns[c]}

\* The text of header field j on the data line that became DataFrame row r.
RawText(r, j) == Field(response.header, response.rows, df.rows[r].src, j)

\* The DataFrame is complete: lines 48-99 have run.
Transformed == pc \in {"connect", "schema", "drop", "create", "insert",
                       "commit", "close", "done"}

---------------------------------------------------------------------------
(* C1: after every run that completes, the committed destination table     *)
(* holds exactly one row per record of that run's DataFrame, in order, and *)
(* no row of an earlier run or of the table's prior contents.              *)
C1_ReplaceLoad ==
    pc = "done" =>
        /\ db.table.exists
        /\ Len(db.table.rows) = Len(df.rows)
        /\ \A k \in 1..Len(db.table.rows) :
              /\ db.table.rows[k].run = run
              /\ db.table.rows[k].id = k
              /\ db.table.rows[k].vals = InsertParams(df, k)

\* A second run completes, with rows, over the data the first run committed.
C1_Witness ==
    /\ pc = "done"
    /\ run = 2
    /\ db0.table.rows # <<>>
    /\ \A k \in 1..Len(db0.table.rows) : db0.table.rows[k].run = 1
    /\ Len(db.table.rows) = 1
    /\ Len(db0.table.rows) = 2

(* C2: a run issues commit at most once, as its last database call and     *)
(* after one successful INSERT per row; until that commit succeeds, and in *)
(* every run that a failed connect, DDL statement, INSERT or commit        *)
(* aborts, the committed database is what it was when the run started.     *)
C2_SingleFinalCommit ==
    /\ Count(stmts, "commit") <= 1
    /\ Count(stmts, "commit") = 1 =>
          /\ stmts[Len(stmts)] = "commit"
          /\ i = Len(df.rows)
          /\ Count(stmts, "insert") = Len(df.rows)
    /\ pc \notin {"close", "done"} => db = db0
    /\ pc = "aborted" => txn = db0

\* The second INSERT of a run fails after the first succeeded, over a table
\* that held a row: nothing of the run is committed.
C2_Witness ==
    /\ pc = "aborted"
    /\ i = 1
    /\ Count(stmts, "insert") = 2
    /\ db0.table.rows # <<>>
    /\ db = db0

(* C3: once the endpoint has answered with a non-success status, the run   *)
(* is aborted with an extraction error and has issued no database call:    *)
(* no connect, no DDL, no INSERT, no commit.                               *)
C3_NoDatabaseAfterRefusal ==
    (response.status # 0 /\ response.status \notin 200..299) =>
        /\ pc = "aborted"
        /\ err = "ExtractionError"
        /\ stmts = <<>>
        /\ db = db0

\* A 401 answer over a database that holds data.
C3_Witness ==
    /\ response.status = 401
    /\ pc = "aborted"
    /\ db.table.rows # <<>>

---------------------------------------------------------------------------
\* The labels read_csv produced, before lines 59-70.
RawLabels == MangleDupes(response.header)

\* x contains no whitespace other than the space character.
OnlySpaces(x) == \A k \in 1..Len(x) : x[k] \in Whitespace => x[k] = " "

(* C4, as claimed: canonicalizing a canonical label changes nothing, for   *)
(* every raw label.                                                        *)
C4_Idempotent ==
    \A j \in 1..Len(canon) : canonicalize(canon[j]) = canon[j]

(* C4, amended: canonicalizing a canonical label only strips it, and       *)
(* changes nothing when the raw label holds no whitespace but spaces.      *)
C4_IdempotentUpToStrip ==
    \A j \in 1..Len(canon) :
        /\ canonicalize(canon[j]) = Strip(canon[j])
        /\ OnlySpaces(RawLabels[j]) => canonicalize(canon[j]) = canon[j]

\* A raw label that opens with a quote, then a space and an ampersand.
C4_Witness ==
    /\ Len(canon) = 1
    /\ RawLabels[1] = <<Quote, " ", "&">>
    /\ canon[1] = <<"_", "a", "n", "d">>

(* C5, as claimed: a header field whose canonical label is a key of        *)
(* COLUMN_MAPPING is written under its mapped name in every inserted row,  *)
(* and no value of an inserted row comes from any other header field.      *)
C5_PureLookup ==
    \A r \in 1..Len(Inserted) :
        /\ \A j \in 1..Len(canon) : \A c \in 1..Len(InsertColumns) :
              <<canon[j], InsertColumns[c]>> \in COLUMN_MAPPING
                 => Inserted[r].vals[c] = SqlValue(df.rows[r].vals[j])
        /\ \A c \in 1..Len(InsertColumns) :
              Inserted[r].vals[c] # SqlNull
                 => \E j \in 1..Len(canon) :
                       <<canon[j], InsertColumns[c]>> \in COLUMN_MAPPING

(* C5, amended: a key of COLUMN_MAPPING is written under its mapped name;  *)
(* a label that is no key is written too when it equals a destination      *)
(* name, under that name; every other label contributes no value.          *)
C5_LookupOrPassThrough ==
    \A r \in 1..Len(Inserted) :
        /\ \A j \in 1..Len(canon) : \A c \in 1..Len(InsertColumns) :
              <<canon[j], InsertColumns[c]>> \in COLUMN_MAPPING
                 => Inserted[r].vals[c] = SqlValue(df.rows[r].vals[j])
        /\ \A j \in 1..Len(canon) : \A c \in 1..Len(InsertColumns) :
              (canon[j] \notin MappingKeys /\ canon[j] = InsertColumns[c])
                 => Inserted[r].vals[c] = SqlValue(df.rows[r].vals[j])
        /\ \A c \in 1..Len(InsertColumns) :
              Inserted[r].vals[c] # SqlNull
                 => \E j \in 1..Len(canon) :
                       \/ <<canon[j], InsertColumns[c]>> \in COLUMN_MAPPING
                       \/ canon[j] \notin MappingKeys /\ canon[j] = InsertColumns[c]

\* A committed row from the header  Name of Organisation?;Current Position.
C5_Witness ==
    /\ pc = "done"
    /\ Len(Inserted) = 1
    /\ canon = <<<<"n","a","m","e","_","o","f","_","o","r","g","a","n","i","s",
                   "a","t","i","o","n">>, current_position>>
    /\ Inserted[1].vals[10] = [k |-> "text", v |-> "x"]
    /\ Inserted[1].vals[11] = [k |-> "text", v |-> TsCell]

---------------------------------------------------------------------------
\* The script has parsed the export: line 48 has run.
Parsed == response.status = 200 /\ pc # "read_csv"

\* The data lines behind the DataFrame's rows.
SourceLines == {df.rows[r].src : r \in 1..Len(df.rows)}

\* The non-blank data lines of the response; the field count of the first,
\* when larger than the header's, is the table's width.
DataLines == {k \in 1..Len(response.rows) : response.rows[k] # <<"">>}
FirstLine == CHOOSE k \in DataLines : \A m \in DataLines : k <= m
Width ==
    IF DataLines # {} /\ Len(response.rows[FirstLine]) > Len(response.header)
    THEN Len(response.rows[FirstLine]) ELSE Len(response.header)
FittingLines == {k \in DataLines : Len(response.rows[k]) <= Width}

\* Every inserted row is the DataFrame's row of the same position.
InsertedInOrder ==
    /\ Len(Inserted) <= Len(df.rows)
    /\ \A r \in 1..Len(Inserted) :
          Inserted[r].id = r /\ Inserted[r].vals = InsertParams(df, r)
    /\ \A r \in 1..Len(df.rows) : \A q \in 1..Len(df.rows) :
          r < q => df.rows[r].src < df.rows[q].src

(* C6, as claimed: when the loop ends, the rows inserted are as many as    *)
(* the data lines with the header's field count, one INSERT each, in the   *)
(* order of the input.                                                     *)
C6_HeaderArityRows ==
    /\ Parsed => InsertedInOrder
    /\ pc \in {"commit", "close", "done"} =>
          /\ Len(Inserted) =
                Cardinality({k \in DataLines :
                               Len(response.rows[k]) = Len(response.header)})
          /\ Count(stmts, "insert") = Len(Inserted)

(* C6, amended: the records are the non-blank data lines with no more      *)
(* fields than the table's width (the header's field count, or the first   *)
(* data line's when that is larger); the rows inserted so far are the      *)
(* first records in input order, one INSERT each, and all of them when the *)
(* loop ends.                                                              *)
C6_InsertsFollowParsedRows ==
    /\ Parsed => SourceLines = FittingLines /\ InsertedInOrder
    /\ pc \in {"commit", "close", "done"} =>
          /\ Len(Inserted) = Cardinality(FittingLines)
          /\ Count(stmts, "insert") = Len(Inserted)

\* A short first line and a long second line under a two-field header: one
\* row is committed.
C6_Witness ==
    /\ pc = "done"
    /\ Len(response.header) = 2
    /\ Len(response.rows) = 2
    /\ Len(response.rows[1]) = 1
    /\ Len(response.rows[2]) = 3
    /\ Len(db.table.rows) = 1

(* C7, as claimed: a data line with fewer fields than the header yields no *)
(* record, so the DataFrame has one row less per such line; no error.      *)
C7_ShortRowDropped ==
    Parsed =>
        /\ \A k \in DataLines :
              Len(response.rows[k]) < Len(response.header) => k \notin SourceLines
        /\ (\A k \in DataLines : Len(response.rows[k]) <= Len(response.header)) =>
              Len(df.rows) =
                 Cardinality(DataLines)
                 - Cardinality({k \in DataLines :
                                  Len(response.rows[k]) < Len(response.header)})
        /\ pc = "aborted" => err = "OperationalError"

(* C7, amended: a data line with fewer fields than the table's width is    *)
(* kept, its missing fields read as missing values; the lines dropped, in  *)
(* silence, are the blank ones and those after the first data line with    *)
(* more fields than the width.                                             *)
C7_ShortRowKept ==
    Parsed =>
        /\ \A k \in DataLines : Len(response.rows[k]) < Width => k \in SourceLines
        /\ \A k \in 1..Len(response.rows) :
              k \notin SourceLines <=>
                 \/ k \notin DataLines
                 \/ k # FirstLine /\ Len(response.rows[k]) > Width
        /\ pc = "clean" =>
              \A r \in 1..Len(df.rows) : \A j \in 1..Len(response.header) :
                 (Width - Len(response.header)) + j > Len(response.rows[df.rows[r].src])
                    => df.rows[r].vals[j] = NaN
        /\ pc = "aborted" => err = "OperationalError"

\* The second of two lines lacks the header's second field, and is
\* committed with the text NaN in that column.
C7_Witness ==
    /\ pc = "done"
    /\ response.header = <<LGender, LRegion>>
    /\ response.rows = <<<<"a", "a">>, <<"b">>>>
    /\ Len(db.table.rows) = 2
    /\ db.table.rows[2].vals[7] = [k |-> "text", v |-> "b"]
    /\ db.table.rows[2].vals[4] = [k |-> "text", v |-> "NaN"]

---------------------------------------------------------------------------
(* C8, as claimed: a start or end text that is empty or does not parse     *)
(* fails no INSERT: the row is inserted with NULL in that column; a valid  *)
(* date-time text is inserted as a timestamp.                              *)
C8_CoercionRecovered ==
    /\ err # "InvalidDatetimeFormat"
    /\ \A r \in 1..Len(Inserted) : \A c \in 1..Len(InsertColumns) :
          (InsertColumns[c] \in TimestampColumns /\ Sources(c) # {}) =>
              LET text == RawText(r, CHOOSE j \in Sources(c) : TRUE)
              IN  /\ text \in {"", "x"} => Inserted[r].vals[c] = SqlNull
                  /\ text = TsCell => Inserted[r].vals[c].k = "timestamp"

C10_VerbatimText ==
    \A r \in 1..Len(Inserted) : \A c \in 1..Len(InsertColumns) :
        (InsertColumns[c] \notin TimestampColumns /\ Sources(c) # {}) =>
            LET text == RawText(r, CHOOSE j \in Sources(c) : TRUE)
            IN  IF text = ""
                THEN Inserted[r].vals[c] \in {SqlNull, [k |-> "text", v |-> ""]}
                ELSE Inserted[r].vals[c] = [k |-> "text", v |-> text]

===========================================================================
